---- MODULE Spec2Model ----
(***************************************************************************)
(* Nutrition estimation and daily log of the NutriBuddy chat page.         *)
(*                                                                         *)
(* Two versions of the page exist in the repository: src/app/page.tsx and  *)
(* src/unnamed/part_002.  They share the localStorage keys and the pure    *)
(* helpers, and differ in addToTodayLog.  Spec is the page of              *)
(* src/app/page.tsx, SpecPart002 the page of src/unnamed/part_002.         *)
(*                                                                         *)
(* Strings are sequences of one-character strings.  JavaScript numbers are *)
(* modelled as integers and quotients are rounded exactly: Math.round(n/d) *)
(* is RoundDiv(n, d).                                                      *)
(***************************************************************************)
EXTENDS Integers, Sequences, FiniteSets, TLC

VARIABLES
  now,        \* the wall clock (new Date()), in ticks of 1/TicksPerDay day
  lsLog,      \* localStorage[TODAY_LOG_KEY]
  lsGoals,    \* localStorage[GOALS_KEY]
  lsProfile,  \* localStorage[PROFILE_KEY]
  todayLog,   \* per tab: React state todayLog
  goals,      \* per tab: React state goals
  profile,    \* per tab: React state profile
  toast,      \* per tab: the last toast shown
  rec,        \* the record last handed to addToTodayLog, <<>> if none yet
  prompt,     \* the last call of buildMessages: <<>> if none yet, else
              \* <<[userProfile, missingFieldsQuestions, asksOnboarding]>>
  messages,   \* per tab: the messages of useChat
  lsChat,     \* localStorage[STORAGE_KEY]
  savedConversations,  \* per tab: React state savedConversations
  lsConvs,    \* localStorage[SAVED_CONVS_KEY]
  clockMs,    \* the wall clock in milliseconds (Date.now())
  answer      \* the last answer of window.prompt: <<>> is null (cancelled)

chatVars == <<messages, lsChat, savedConversations, lsConvs, clockMs, answer>>

vars == <<now, lsLog, lsGoals, lsProfile, todayLog, goals, profile, toast, rec, prompt,
          messages, lsChat, savedConversations, lsConvs, clockMs, answer>>

(***************************************************************************)
(* Bounds of the model.                                                    *)
(***************************************************************************)
TicksPerDay == 1
MaxTick == 1
MaxLogKcal == 100
MaxMs == 1
MaxMessages == 1

Tabs == {"A", "B"}

(***************************************************************************)
(* Strings and numbers.                                                    *)
(***************************************************************************)
Digits == <<"0", "1", "2", "3", "4", "5", "6", "7", "8", "9">>

IsDigit(c) == \E k \in 1..10 : Digits[k] = c

DigitVal(c) == (CHOOSE k \in 1..10 : Digits[k] = c) - 1

\* \s of a regular expression
IsSpace(c) == c \in {" ", "\t", "\n"}

\* String.prototype.toLowerCase, one character
LowerChar(c) ==
  CASE c = "A" -> "a" [] c = "B" -> "b" [] c = "C" -> "c" [] c = "D" -> "d"
    [] c = "E" -> "e" [] c = "F" -> "f" [] c = "G" -> "g" [] c = "H" -> "h"
    [] c = "I" -> "i" [] c = "K" -> "k" [] c = "L" -> "l" [] c = "M" -> "m"
    [] c = "N" -> "n" [] c = "O" -> "o" [] c = "P" -> "p" [] c = "R" -> "r"
    [] c = "S" -> "s" [] c = "T" -> "t" [] c = "V" -> "v" [] c = "Y" -> "y"
    [] OTHER -> c

toLowerCase(s) == [i \in 1..Len(s) |-> LowerChar(s[i])]

\* the value of a run of decimal digits
RECURSIVE DecimalValue(_)
DecimalValue(s) ==
  IF s = <<>> THEN 0
  ELSE 10 * DecimalValue(SubSeq(s, 1, Len(s) - 1)) + DigitVal(s[Len(s)])

AllDigits(s) == \A i \in 1..Len(s) : IsDigit(s[i])

\* Number(string): [nan, v].  "" is 0, an optionally signed run of digits is
\* its value, anything else is NaN.
Number(s) ==
  IF s = <<>> THEN [nan |-> FALSE, v |-> 0]
  ELSE IF AllDigits(s) THEN [nan |-> FALSE, v |-> DecimalValue(s)]
  ELSE IF s[1] = "-" /\ Len(s) > 1 /\ AllDigits(Tail(s))
    THEN [nan |-> FALSE, v |-> 0 - DecimalValue(Tail(s))]
  ELSE [nan |-> TRUE, v |-> 0]

\* a number used as a condition: NaN and 0 are falsy
Truthy(x) == ~x.nan /\ x.v # 0

\* Math.round(n / d) for d # 0: the nearest integer, halves towards +infinity
RoundDiv(n, d) ==
  IF d > 0 THEN (2 * n + d) \div (2 * d)
  ELSE (2 * (0 - n) + (0 - d)) \div (2 * (0 - d))

Max(a, b) == IF a >= b THEN a ELSE b

(***************************************************************************)
(* BMR and goal estimation.                                                *)
(***************************************************************************)
\* computeBMR: <<>> is null, <<b>> the rounded value
computeBMR(weightKg, heightCm, age) ==
  IF weightKg = 0 \/ heightCm = 0 \/ age = 0 THEN <<>>
  ELSE <<RoundDiv(40 * weightKg + 25 * heightCm - 20 * age + 20, 4)>>

\* activityMultiplier comparing the activity as it is written
activityMultiplier_caseSensitive(activity) ==
  LET a == activity IN
  CASE a = <<"s", "e", "d", "e", "n", "t", "a", "r", "y">> -> 1200
    [] a = <<"l", "i", "g", "h", "t">> -> 1375
    [] a = <<"m", "o", "d", "e", "r", "a", "t", "e">> -> 1550
    [] a = <<"a", "c", "t", "i", "v", "e">> -> 1725
    [] OTHER -> 1550

\* activityMultiplier, in thousandths
activityMultiplier(activity) ==
  LET a == toLowerCase(activity) IN
  CASE a = <<"s", "e", "d", "e", "n", "t", "a", "r", "y">> -> 1200
    [] a = <<"l", "i", "g", "h", "t">> -> 1375
    [] a = <<"m", "o", "d", "e", "r", "a", "t", "e">> -> 1550
    [] a = <<"a", "c", "t", "i", "v", "e">> -> 1725
    [] OTHER -> 1550

S_Moderate == <<"M", "o", "d", "e", "r", "a", "t", "e">>

\* estimateGoalsFromProfile passing the age to computeBMR as it is, without the
\* default of 30
estimateGoalsFromProfile_noAgeDefault(p) ==
  LET w == Number(p.weightKg)
      h == Number(p.heightCm)
      a == Number(p.age)
      weightKnown == Truthy(w)
      weight == IF weightKnown THEN w.v ELSE 70
      height == IF Truthy(h) THEN h.v ELSE 170
      age == IF a.nan THEN 0 ELSE a.v
      activity == IF p.activity = <<>> THEN S_Moderate ELSE p.activity
      b == computeBMR(weight, height, age)
      bmr == IF b = <<>> \/ b = <<0>> THEN 1500 ELSE b[1]
      kcal == RoundDiv(bmr * activityMultiplier(activity), 1000)
      proteinG == IF weightKnown THEN RoundDiv(weight * 16, 10)
                  ELSE RoundDiv(kcal * 25, 400)
      fatG == RoundDiv(kcal * 25, 900)
      remainingCalories == kcal - proteinG * 4 - fatG * 9
      carbsG == IF remainingCalories > 0 THEN RoundDiv(remainingCalories, 4)
                ELSE RoundDiv(kcal * 45, 400)
  IN [kcal |-> kcal, proteinG |-> proteinG, carbsG |-> carbsG, fatG |-> fatG]

\* estimateGoalsFromProfile taking the protein from kcal whatever the weight
estimateGoalsFromProfile_proteinFromKcal(p) ==
  LET w == Number(p.weightKg)
      h == Number(p.heightCm)
      a == Number(p.age)
      weightKnown == Truthy(w)
      weight == IF weightKnown THEN w.v ELSE 70
      height == IF Truthy(h) THEN h.v ELSE 170
      age == IF Truthy(a) THEN a.v ELSE 30
      activity == IF p.activity = <<>> THEN S_Moderate ELSE p.activity
      b == computeBMR(weight, height, age)
      bmr == IF b = <<>> \/ b = <<0>> THEN 1500 ELSE b[1]
      kcal == RoundDiv(bmr * activityMultiplier(activity), 1000)
      proteinG == RoundDiv(kcal * 25, 400)
      fatG == RoundDiv(kcal * 25, 900)
      remainingCalories == kcal - proteinG * 4 - fatG * 9
      carbsG == IF remainingCalories > 0 THEN RoundDiv(remainingCalories, 4)
                ELSE RoundDiv(kcal * 45, 400)
  IN [kcal |-> kcal, proteinG |-> proteinG, carbsG |-> carbsG, fatG |-> fatG]

estimateGoalsFromProfile(p) ==
  LET w == Number(p.weightKg)
      h == Number(p.heightCm)
      a == Number(p.age)
      weightKnown == Truthy(w)
      weight == IF weightKnown THEN w.v ELSE 70
      height == IF Truthy(h) THEN h.v ELSE 170
      age == IF Truthy(a) THEN a.v ELSE 30
      activity == IF p.activity = <<>> THEN S_Moderate ELSE p.activity
      b == computeBMR(weight, height, age)
      bmr == IF b = <<>> \/ b = <<0>> THEN 1500 ELSE b[1]
      kcal == RoundDiv(bmr * activityMultiplier(activity), 1000)
      proteinG == IF weightKnown THEN RoundDiv(weight * 16, 10)
                  ELSE RoundDiv(kcal * 25, 400)
      fatG == RoundDiv(kcal * 25, 900)
      remainingCalories == kcal - proteinG * 4 - fatG * 9
      carbsG == IF remainingCalories > 0 THEN RoundDiv(remainingCalories, 4)
                ELSE RoundDiv(kcal * 45, 400)
  IN [kcal |-> kcal, proteinG |-> proteinG, carbsG |-> carbsG, fatG |-> fatG]

(***************************************************************************)
(* parseNutrientsFromText.  A nullable number is <<>> (null) or <<n>>.     *)
(***************************************************************************)
HasWordAt(s, i, w) ==
  /\ i + Len(w) - 1 <= Len(s)
  /\ \A k \in 1..Len(w) : s[i + k - 1] = w[k]

\* (\d{lo,hi})\s?<unit> matched at position i with n digits and sp blanks
QuantityAt(s, i, n, sp, unit) ==
  /\ i + n - 1 <= Len(s)
  /\ \A k \in i..(i + n - 1) : IsDigit(s[k])
  /\ sp = 1 => (i + n <= Len(s) /\ IsSpace(s[i + n]))
  /\ HasWordAt(s, i + n + sp, unit)

\* String.prototype.match of /(\d{lo,hi})\s?<unit>\s?(?:<keywords>)?/ :
\* <<>> when nothing matches, else <<[cap, len]>> for the leftmost match, the
\* digits taken greedily; cap is capture group 1 and len the matched length.
\* keywords is the alternation in its order; <<>> when the pattern has none.
RegexQuantity(s, lo, hi, unit, keywords) ==
  LET At(i, n) == \E sp \in {0, 1} : QuantityAt(s, i, n, sp, unit)
      starts == {i \in 1..Len(s) : \E n \in lo..hi : At(i, n)}
  IN IF starts = {} THEN <<>>
     ELSE
       LET i == CHOOSE a \in starts : \A b \in starts : a <= b
           n == CHOOSE a \in lo..hi : At(i, a) /\ \A b \in lo..hi : At(i, b) => b <= a
           sp == IF QuantityAt(s, i, n, 1, unit) THEN 1 ELSE 0
           e == i + n + sp + Len(unit)          \* first position after the unit
           sp2 == IF e <= Len(s) /\ IsSpace(s[e]) /\ keywords # <<>> THEN 1 ELSE 0
           hits == {k \in 1..Len(keywords) : HasWordAt(s, e + sp2, keywords[k])}
           kw == IF hits = {} THEN 0
                 ELSE Len(keywords[CHOOSE k \in hits : \A j \in hits : k <= j])
       IN <<[cap |-> DecimalValue(SubSeq(s, i, i + n - 1)),
             len |-> n + sp + Len(unit) + sp2 + kw]>>

W_kcal == <<"k", "c", "a", "l">>
W_g == <<"g">>
W_protein == <<"p", "r", "o", "t", "e", "i", "n">>
W_carb == <<"c", "a", "r", "b">>
W_carbs == <<"c", "a", "r", "b", "s">>
W_carbohydrate == <<"c", "a", "r", "b", "o", "h", "y", "d", "r", "a", "t", "e">>
W_fat == <<"f", "a", "t">>

\* match ? Number(match[1]) : null
Capture(m) == IF m = <<>> THEN <<>> ELSE <<m[1].cap>>

\* parseNutrientsFromText asking the carbs pattern for at least two digits
parseNutrientsFromText_carbsTwoDigits(text) ==
  IF text = <<>> THEN <<>>
  ELSE
    LET lower == toLowerCase(text)
        kcalMatch == RegexQuantity(lower, 2, 5, W_kcal, <<>>)
        proteinMatch == RegexQuantity(lower, 1, 4, W_g, <<W_protein>>)
        carbsMatch == RegexQuantity(lower, 2, 4, W_g, <<W_carb, W_carbs, W_carbohydrate>>)
        fatMatch == RegexQuantity(lower, 1, 4, W_g, <<W_fat>>)
    IN <<[kcal |-> Capture(kcalMatch), protein |-> Capture(proteinMatch),
          carbs |-> Capture(carbsMatch), fat |-> Capture(fatMatch)]>>

\* <<>> is the null result, <<r>> the record of nullable numbers
parseNutrientsFromText(text) ==
  IF text = <<>> THEN <<>>
  ELSE
    LET lower == toLowerCase(text)
        kcalMatch == RegexQuantity(lower, 2, 5, W_kcal, <<>>)
        proteinMatch == RegexQuantity(lower, 1, 4, W_g, <<W_protein>>)
        carbsMatch == RegexQuantity(lower, 1, 4, W_g, <<W_carb, W_carbs, W_carbohydrate>>)
        fatMatch == RegexQuantity(lower, 1, 4, W_g, <<W_fat>>)
    IN <<[kcal |-> Capture(kcalMatch), protein |-> Capture(proteinMatch),
          carbs |-> Capture(carbsMatch), fat |-> Capture(fatMatch)]>>

\* a nullable number used as a condition, and x || 0
Found(x) == x # <<>> /\ x[1] # 0
OrZero(x) == IF x = <<>> THEN 0 ELSE x[1]

\* inferRecord taking the carbs share of the kcal-only case from goals.carbsG
\* instead of what protein and fat leave of the goal
inferRecord_carbsShare(parsed, g) ==
  IF Found(parsed.kcal) /\ ~Found(parsed.protein) /\ ~Found(parsed.carbs) /\ ~Found(parsed.fat)
  THEN
    LET kcal == parsed.kcal[1]
        totalGoalCals == IF g.kcal # 0 THEN g.kcal ELSE 2000
        proteinCals == g.proteinG * 4
        fatCals == g.fatG * 9
        carbsCals == g.carbsG * 4
    IN [kcal |-> kcal,
        protein |-> RoundDiv(kcal * proteinCals, totalGoalCals * 4),
        carbs |-> RoundDiv(kcal * carbsCals, totalGoalCals * 4),
        fat |-> RoundDiv(kcal * fatCals, totalGoalCals * 9)]
  ELSE
    LET kcal == IF ~Found(parsed.kcal)
                THEN OrZero(parsed.protein) * 4 + OrZero(parsed.carbs) * 4
                     + OrZero(parsed.fat) * 9
                ELSE parsed.kcal[1]
        missingProtein == parsed.protein = <<>>
        missingCarbs == parsed.carbs = <<>>
        missingFat == parsed.fat = <<>>
        used == OrZero(parsed.protein) * 4 + OrZero(parsed.carbs) * 4
                + OrZero(parsed.fat) * 9
        remainingCals == Max(0, kcal - used)
        goalProteinCals == g.proteinG * 4
        goalCarbCals == g.carbsG * 4
        goalFatCals == g.fatG * 9
        goalSum == goalProteinCals + goalCarbCals + goalFatCals
        fill == kcal # 0 /\ (missingProtein \/ missingCarbs \/ missingFat) /\ goalSum > 0
    IN [kcal |-> kcal,
        protein |-> IF fill /\ missingProtein
                    THEN RoundDiv(remainingCals * goalProteinCals, goalSum * 4)
                    ELSE OrZero(parsed.protein),
        carbs |-> IF fill /\ missingCarbs
                  THEN RoundDiv(remainingCals * goalCarbCals, goalSum * 4)
                  ELSE OrZero(parsed.carbs),
        fat |-> IF fill /\ missingFat
                THEN RoundDiv(remainingCals * goalFatCals, goalSum * 9)
                ELSE OrZero(parsed.fat)]

\* inferRecord converting the fat calories to grams with 4 kcal per gram
inferRecord_fatBy4(parsed, g) ==
  IF Found(parsed.kcal) /\ ~Found(parsed.protein) /\ ~Found(parsed.carbs) /\ ~Found(parsed.fat)
  THEN
    LET kcal == parsed.kcal[1]
        totalGoalCals == IF g.kcal # 0 THEN g.kcal ELSE 2000
        proteinCals == g.proteinG * 4
        fatCals == g.fatG * 9
        carbsCals == totalGoalCals - proteinCals - fatCals
    IN [kcal |-> kcal,
        protein |-> RoundDiv(kcal * proteinCals, totalGoalCals * 4),
        carbs |-> RoundDiv(kcal * carbsCals, totalGoalCals * 4),
        fat |-> RoundDiv(kcal * fatCals, totalGoalCals * 4)]
  ELSE
    LET kcal == IF ~Found(parsed.kcal)
                THEN OrZero(parsed.protein) * 4 + OrZero(parsed.carbs) * 4
                     + OrZero(parsed.fat) * 9
                ELSE parsed.kcal[1]
        missingProtein == parsed.protein = <<>>
        missingCarbs == parsed.carbs = <<>>
        missingFat == parsed.fat = <<>>
        used == OrZero(parsed.protein) * 4 + OrZero(parsed.carbs) * 4
                + OrZero(parsed.fat) * 9
        remainingCals == Max(0, kcal - used)
        goalProteinCals == g.proteinG * 4
        goalCarbCals == g.carbsG * 4
        goalFatCals == g.fatG * 9
        goalSum == goalProteinCals + goalCarbCals + goalFatCals
        fill == kcal # 0 /\ (missingProtein \/ missingCarbs \/ missingFat) /\ goalSum > 0
    IN [kcal |-> kcal,
        protein |-> IF fill /\ missingProtein
                    THEN RoundDiv(remainingCals * goalProteinCals, goalSum * 4)
                    ELSE OrZero(parsed.protein),
        carbs |-> IF fill /\ missingCarbs
                  THEN RoundDiv(remainingCals * goalCarbCals, goalSum * 4)
                  ELSE OrZero(parsed.carbs),
        fat |-> IF fill /\ missingFat
                THEN RoundDiv(remainingCals * goalFatCals, goalSum * 9)
                ELSE OrZero(parsed.fat)]

\* parseAndAddFromText, from the destructuring of parsed to the record handed
\* to addToTodayLog
inferRecord(parsed, g) ==
  IF Found(parsed.kcal) /\ ~Found(parsed.protein) /\ ~Found(parsed.carbs) /\ ~Found(parsed.fat)
  THEN
    LET kcal == parsed.kcal[1]
        totalGoalCals == IF g.kcal # 0 THEN g.kcal ELSE 2000
        proteinCals == g.proteinG * 4
        fatCals == g.fatG * 9
        carbsCals == totalGoalCals - proteinCals - fatCals
    IN [kcal |-> kcal,
        protein |-> RoundDiv(kcal * proteinCals, totalGoalCals * 4),
        carbs |-> RoundDiv(kcal * carbsCals, totalGoalCals * 4),
        fat |-> RoundDiv(kcal * fatCals, totalGoalCals * 9)]
  ELSE
    LET kcal == IF ~Found(parsed.kcal)
                THEN OrZero(parsed.protein) * 4 + OrZero(parsed.carbs) * 4
                     + OrZero(parsed.fat) * 9
                ELSE parsed.kcal[1]
        missingProtein == parsed.protein = <<>>
        missingCarbs == parsed.carbs = <<>>
        missingFat == parsed.fat = <<>>
        used == OrZero(parsed.protein) * 4 + OrZero(parsed.carbs) * 4
                + OrZero(parsed.fat) * 9
        remainingCals == Max(0, kcal - used)
        goalProteinCals == g.proteinG * 4
        goalCarbCals == g.carbsG * 4
        goalFatCals == g.fatG * 9
        goalSum == goalProteinCals + goalCarbCals + goalFatCals
        fill == kcal # 0 /\ (missingProtein \/ missingCarbs \/ missingFat) /\ goalSum > 0
    IN [kcal |-> kcal,
        protein |-> IF fill /\ missingProtein
                    THEN RoundDiv(remainingCals * goalProteinCals, goalSum * 4)
                    ELSE OrZero(parsed.protein),
        carbs |-> IF fill /\ missingCarbs
                  THEN RoundDiv(remainingCals * goalCarbCals, goalSum * 4)
                  ELSE OrZero(parsed.carbs),
        fat |-> IF fill /\ missingFat
                THEN RoundDiv(remainingCals * goalFatCals, goalSum * 9)
                ELSE OrZero(parsed.fat)]

(***************************************************************************)
(* localStorage and the pure part of the daily log.                        *)
(* A cell of localStorage is missing (getItem gives null), holds a text    *)
(* JSON.parse rejects, or holds the JSON text of a value.                  *)
(***************************************************************************)
Missing == [kind |-> "missing", val |-> <<>>]
Unparsable == [kind |-> "unparsable", val |-> <<>>]
JSONstringify(v) == [kind |-> "json", val |-> <<v>>]

\* new Date().toISOString().slice(0, 10) read at clock c: the UTC day
todayIso(c) == c \div TicksPerDay

ZeroLog(d) == [dateIso |-> d, kcal |-> 0, protein |-> 0, carbs |-> 0, fat |-> 0]

\* loadTodayLog without the comparison of the stored date
loadTodayLog_noDateCheck(raw, c1, c2) ==
  IF raw.kind = "json" THEN raw.val[1] ELSE ZeroLog(todayIso(c2))

\* loadTodayLog: c1 is the clock at the comparison of the stored date, c2 the
\* clock when the zeroed log is built
loadTodayLog(raw, c1, c2) ==
  IF raw.kind = "missing" THEN ZeroLog(todayIso(c2))
  ELSE IF raw.kind = "unparsable" THEN ZeroLog(todayIso(c2))
  ELSE IF raw.val[1].dateIso # todayIso(c1) THEN ZeroLog(todayIso(c2))
  ELSE raw.val[1]

saveTodayLog(log) == JSONstringify(log)

\* loadGoals: <<>> is null
loadGoals(raw) == IF raw.kind = "json" THEN raw.val ELSE <<>>

saveGoals(g) == JSONstringify(g)

\* nextLog keeping the record instead of the running sum
nextLog_overwrite(current, r, c) ==
  [dateIso |-> todayIso(c), kcal |-> r.kcal, protein |-> r.protein,
   carbs |-> r.carbs, fat |-> r.fat]

\* the object addToTodayLog builds from the log it starts from and the record;
\* c is the clock when dateIso is read
nextLog(current, r, c) ==
  [dateIso |-> todayIso(c),
   kcal |-> current.kcal + r.kcal,
   protein |-> current.protein + r.protein,
   carbs |-> current.carbs + r.carbs,
   fat |-> current.fat + r.fat]

BlankProfile ==
  [name |-> <<>>, age |-> <<>>, heightCm |-> <<>>, weightKg |-> <<>>,
   activity |-> S_Moderate]

\* String.prototype.trim
RECURSIVE trimStart(_)
trimStart(s) == IF s # <<>> /\ IsSpace(s[1]) THEN trimStart(Tail(s)) ELSE s

RECURSIVE trimEnd(_)
trimEnd(s) ==
  IF s # <<>> /\ IsSpace(s[Len(s)]) THEN trimEnd(SubSeq(s, 1, Len(s) - 1)) ELSE s

trim(s) == trimEnd(trimStart(s))

(***************************************************************************)
(* Inputs.                                                                 *)
(***************************************************************************)
T_100kcal == <<"1", "0", "0", " ", "K", "c", "a", "l">>
T_50kcal == <<"5", "0", "k", "c", "a", "l">>
T_30gProtein == <<"3", "0", "g", " ", "p", "r", "o", "t", "e", "i", "n">>
T_hello == <<"h", "e", "l", "l", "o">>

T_420kcal == <<"4", "2", "0", " ", "k", "c", "a", "l">>
T_meal == <<"B", "o", "w", "l", " ", "-", " ", "4", "2", "0", " ", "k", "c", "a", "l", ",", " ", "3", "0", "g", " ", "p", "r", "o", "t", "e", "i", "n", ",", " ", "4", "0", "g", " ", "c", "a", "r", "b", "s", ",", " ", "1", "0", "g", " ", "f", "a", "t">>
T_00kcal == <<"0", "0", " ", "k", "c", "a", "l", " ", "7", "g">>
T_5kcal == <<"5", " ", "k", "c", "a", "l">>
T_123456kcal == <<"1", "2", "3", "4", "5", "6", " ", "k", "c", "a", "l">>
T_12345g == <<"1", "2", "3", "4", "5", "g">>
T_40gCarbs == <<"4", "0", " ", "G", " ", "c", "a", "r", "b", "s">>
T_0gFat300kcal == <<"0", "g", " ", "f", "a", "t", ",", " ", "3", "0", "0", " ", "k", "c", "a", "l">>
T_2tabKcal == <<"2", "5", "0", "	", "k", "c", "a", "l">>
T_gOnly == <<"k", "c", "a", "l", " ", "g", " ", "p", "r", "o", "t", "e", "i", "n">>
T_420kcal30gProtein == <<"4", "2", "0", " ", "k", "c", "a", "l", ",", " ", "3", "0", "g", " ", "p", "r", "o", "t", "e", "i", "n">>

\* the texts of the page's handlers in Spec and SpecPart002
Texts == {<<>>, T_hello, T_100kcal, T_50kcal, T_30gProtein}

\* the texts of SpecExtract
WideTexts ==
  Texts \cup {T_420kcal, T_meal, T_00kcal, T_5kcal, T_123456kcal,
     T_12345g, T_40gCarbs, T_0gFat300kcal, T_2tabKcal, T_gOnly,
     T_420kcal30gProtein}

\* parseNutrientsFromText on each text the model feeds it
ParsedTexts == [text \in WideTexts |-> parseNutrientsFromText(text)]

\* the suggested meals of the page
Meals ==
  {[kcal |-> 420, protein |-> 30, carbs |-> 40, fat |-> 10],
   [kcal |-> 350, protein |-> 12, carbs |-> 50, fat |-> 10],
   [kcal |-> 560, protein |-> 20, carbs |-> 80, fat |-> 12]}

S_Active == <<"A", "c", "t", "i", "v", "e">>

\* what the user types into the profile form
ProfileInputs ==
  [weightKg |-> {<<"9", "0">>}]

\* what the user types into the goal inputs (Number(raw), "" read as 0)
GoalInputs ==
  [proteinG |-> {600}]

(***************************************************************************)
(* The page of src/app/page.tsx.                                           *)
(***************************************************************************)
T_added == "Added to today's log"

\* the messages the page finds under STORAGE_KEY when it loads
storedMessages(cell) ==
  IF cell.kind = "json" THEN cell.val[1].messages ELSE <<>>

\* the list the page finds under SAVED_CONVS_KEY when it loads
storedConversations(cell) ==
  IF cell.kind = "json" THEN cell.val[1] ELSE <<>>

\* the chat of a page that has been loaded on a browser without saved
\* conversations; the persist effect has written the empty chat
InitChat ==
  /\ messages = [t \in Tabs |-> <<>>]
  /\ lsChat = JSONstringify([messages |-> <<>>])
  /\ savedConversations = [t \in Tabs |-> <<>>]
  /\ lsConvs = Missing
  /\ clockMs = 0
  /\ answer = <<>>

Init ==
  /\ now = 0
  /\ lsLog \in {Missing, Unparsable}
  /\ lsGoals = Missing
  /\ lsProfile = Missing
  /\ todayLog = [t \in Tabs |-> ZeroLog(todayIso(0))]
  /\ goals = [t \in Tabs |-> estimateGoalsFromProfile(BlankProfile)]
  /\ profile = [t \in Tabs |-> BlankProfile]
  /\ toast = [t \in Tabs |-> ""]
  /\ rec = <<>>
  /\ prompt = <<>>
  /\ InitChat

\* time passes between two handlers
Tick ==
  /\ now < MaxTick
  /\ now' = now + 1
  /\ UNCHANGED <<prompt, chatVars, lsLog, lsGoals, lsProfile, todayLog, goals, profile, toast, rec>>

\* the clock readings a handler can see: the next reading is the same tick or
\* the one after
Later(c) == {d \in {c, c + 1} : d <= MaxTick}

\* a page load that estimates the goals from the profile whatever is stored
Mount_reestimate(t) ==
  \E c2 \in Later(now) :
    LET stored == IF lsProfile.kind = "json" THEN lsProfile.val[1] ELSE BlankProfile
    IN /\ profile' = [profile EXCEPT ![t] = stored]
       /\ goals' = [goals EXCEPT ![t] = estimateGoalsFromProfile(stored)]
       /\ todayLog' = [todayLog EXCEPT ![t] = loadTodayLog(lsLog, now, c2)]
       /\ toast' = [toast EXCEPT ![t] = ""]
       /\ now' = c2
       /\ messages' = [messages EXCEPT ![t] = storedMessages(lsChat)]
       /\ lsChat' = JSONstringify([messages |-> storedMessages(lsChat)])
       /\ savedConversations' = [savedConversations EXCEPT ![t] = storedConversations(lsConvs)]
       /\ UNCHANGED <<prompt, lsLog, lsGoals, lsProfile, rec, lsConvs, clockMs, answer>>

\* page load: the useState initialisers and the mount effect
Mount(t) ==
  \E c2 \in Later(now) :
    LET stored == IF lsProfile.kind = "json" THEN lsProfile.val[1] ELSE BlankProfile
        loaded == loadGoals(lsGoals)
    IN /\ profile' = [profile EXCEPT ![t] = stored]
       /\ goals' = [goals EXCEPT ![t] =
                      IF loaded # <<>> THEN loaded[1] ELSE estimateGoalsFromProfile(stored)]
       /\ todayLog' = [todayLog EXCEPT ![t] = loadTodayLog(lsLog, now, c2)]
       /\ toast' = [toast EXCEPT ![t] = ""]
       /\ now' = c2
       /\ messages' = [messages EXCEPT ![t] = storedMessages(lsChat)]
       /\ lsChat' = JSONstringify([messages |-> storedMessages(lsChat)])
       /\ savedConversations' = [savedConversations EXCEPT ![t] = storedConversations(lsConvs)]
       /\ UNCHANGED <<prompt, lsLog, lsGoals, lsProfile, rec, lsConvs, clockMs, answer>>

\* persistTodayLog without the call of saveTodayLog
persistTodayLog_stateOnly(t, next) ==
  /\ todayLog' = [todayLog EXCEPT ![t] = next]
  /\ lsLog' = lsLog

\* persistTodayLog(next)
persistTodayLog(t, next) ==
  /\ todayLog' = [todayLog EXCEPT ![t] = next]
  /\ lsLog' = saveTodayLog(next)

\* addToTodayLog(r): the stored log is read at
\* clock now (compared) and c2 (zeroed), the new date at c3
addToTodayLog(t, r) ==
  \E c2 \in Later(now) : \E c3 \in Later(c2) :
    LET current == loadTodayLog(lsLog, now, c2)
        next == nextLog(current, r, c3)
    IN /\ c3 <= now + 1
       /\ current.kcal <= MaxLogKcal
       /\ persistTodayLog(t, next)
       /\ toast' = [toast EXCEPT ![t] = T_added]
       /\ now' = c3
       /\ rec' = <<r>>
       /\ UNCHANGED <<prompt, chatVars, lsGoals, lsProfile, goals, profile>>

\* a handler that ends in toast.error(msg)
toastError(t, msg) ==
  /\ toast' = [toast EXCEPT ![t] = msg]
  /\ UNCHANGED <<prompt, chatVars, now, lsLog, lsGoals, lsProfile, todayLog, goals, profile, rec>>

\* parseAndAddFromText without the test of an empty text
parseAndAddFromText_noEmptyCheck(t, text) ==
  LET parsed == ParsedTexts[text] IN
  IF parsed = <<>> THEN toastError(t, "Could not parse nutrients from text")
  ELSE addToTodayLog(t, inferRecord(parsed[1], goals[t]))

parseAndAddFromText(t, text) ==
  IF text = <<>> THEN toastError(t, "No text provided")
  ELSE
    LET parsed == ParsedTexts[text] IN
    IF parsed = <<>> THEN toastError(t, "Could not parse nutrients from text")
    ELSE addToTodayLog(t, inferRecord(parsed[1], goals[t]))

\* the Add button of an assistant message (MessageWall onAddToLog)
onAddToLog(t) == \E text \in Texts : parseAndAddFromText(t, text)

addComposerToLog(t) ==
  \E message \in Texts :
    LET txt == trim(message) IN
    IF txt = <<>> THEN toastError(t, "Composer is empty")
    ELSE parseAndAddFromText(t, txt)

\* the text is that of the last assistant message, if there is one
addLastAssistantMessageToLog(t) ==
  \E found \in BOOLEAN : \E text \in Texts :
    IF ~found THEN toastError(t, "No assistant messages found")
    ELSE parseAndAddFromText(t, text)

\* the Add button of a suggested meal
addMeal(t) == \E m \in Meals : addToTodayLog(t, m)

resetTodayLog(t) ==
  /\ persistTodayLog(t, ZeroLog(todayIso(now)))
  /\ toast' = [toast EXCEPT ![t] = "Today's log reset"]
  /\ UNCHANGED <<prompt, chatVars, now, lsGoals, lsProfile, goals, profile, rec>>

updateProfileField(t) ==
  \E f \in DOMAIN ProfileInputs : \E v \in ProfileInputs[f] :
    LET next == [profile[t] EXCEPT ![f] = v] IN
    /\ profile' = [profile EXCEPT ![t] = next]
    /\ lsProfile' = JSONstringify(next)
    /\ UNCHANGED <<prompt, chatVars, now, lsLog, lsGoals, todayLog, goals, toast, rec>>

\* the Reset button of the profile card
resetProfile(t) ==
  /\ profile' = [profile EXCEPT ![t] = BlankProfile]
  /\ lsProfile' = Missing
  /\ toast' = [toast EXCEPT ![t] = "Profile cleared"]
  /\ UNCHANGED <<prompt, chatVars, now, lsLog, lsGoals, todayLog, goals, rec>>

\* setGoals(next)
setGoals(t, next) ==
  /\ goals' = [goals EXCEPT ![t] = next]
  /\ lsGoals' = saveGoals(next)

\* the Estimate goals button
estimateGoals(t) ==
  /\ setGoals(t, estimateGoalsFromProfile(profile[t]))
  /\ toast' = [toast EXCEPT ![t] = "Goals estimated from profile"]
  /\ UNCHANGED <<prompt, chatVars, now, lsLog, lsProfile, todayLog, profile, rec>>

\* onChange of one of the four goal inputs
editGoal(t) ==
  \E f \in DOMAIN GoalInputs : \E n \in GoalInputs[f] :
    /\ setGoals(t, [goals[t] EXCEPT ![f] = n])
    /\ UNCHANGED <<prompt, chatVars, now, lsLog, lsProfile, todayLog, profile, toast, rec>>

\* the tabs that are open
OneTab == {"A"}

Next ==
  \/ Tick
  \/ \E t \in OneTab :
       \/ Mount(t)
       \/ onAddToLog(t)
       \/ addComposerToLog(t)
       \/ addLastAssistantMessageToLog(t)
       \/ addMeal(t)
       \/ resetTodayLog(t)
       \/ updateProfileField(t)
       \/ resetProfile(t)
       \/ estimateGoals(t)
       \/ editGoal(t)

Spec == Init /\ [][Next]_vars

(***************************************************************************)
(* The page of src/unnamed/part_002.  Its mount, profile and goal handlers *)
(* do what those of src/app/page.tsx do; its addToTodayLog starts from the *)
(* React state todayLog instead of reading localStorage.                   *)
(***************************************************************************)
addToTodayLog_part002(t, r) ==
  LET next == nextLog(todayLog[t], r, now) IN
  /\ todayLog[t].kcal <= MaxLogKcal
  /\ persistTodayLog(t, next)
  /\ toast' = [toast EXCEPT ![t] = T_added]
  /\ rec' = <<r>>
  /\ UNCHANGED <<prompt, chatVars, now, lsGoals, lsProfile, goals, profile>>

parseAndAddFromText_part002(t, text) ==
  IF text = <<>> THEN toastError(t, "No text provided")
  ELSE
    LET parsed == ParsedTexts[text] IN
    IF parsed = <<>> THEN toastError(t, "Could not parse nutrients from text")
    ELSE addToTodayLog_part002(t, inferRecord(parsed[1], goals[t]))

addComposerToLog_part002(t) ==
  \E message \in Texts :
    LET txt == trim(message) IN
    IF txt = <<>> THEN toastError(t, "Composer is empty")
    ELSE parseAndAddFromText_part002(t, txt)

addLastAssistantMessageToLog_part002(t) ==
  \E found \in BOOLEAN : \E text \in Texts :
    IF ~found THEN toastError(t, "No assistant messages found")
    ELSE parseAndAddFromText_part002(t, text)

addMeal_part002(t) == \E m \in Meals : addToTodayLog_part002(t, m)

\* the Reset button of the log card
resetLog_part002(t) ==
  /\ persistTodayLog(t, ZeroLog(todayIso(now)))
  /\ toast' = [toast EXCEPT ![t] = "Log reset"]
  /\ UNCHANGED <<prompt, chatVars, now, lsGoals, lsProfile, goals, profile, rec>>

NextPart002 ==
  \/ Tick
  \/ \E t \in OneTab :
       \/ Mount(t)
       \/ addComposerToLog_part002(t)
       \/ addLastAssistantMessageToLog_part002(t)
       \/ addMeal_part002(t)
       \/ resetLog_part002(t)
       \/ updateProfileField(t)
       \/ resetProfile(t)
       \/ estimateGoals(t)
       \/ editGoal(t)

SpecPart002 == Init /\ [][NextPart002]_vars

(***************************************************************************)
(* Two tabs of one browser share localStorage; each has its own React      *)
(* state.  TwoTabs is the page of src/app/page.tsx, TwoTabsPart002 that of *)
(* src/unnamed/part_002.                                                   *)
(***************************************************************************)
NextTwoTabs ==
  \/ Tick
  \/ \E t \in Tabs :
       \/ Mount(t)
       \/ onAddToLog(t)
       \/ addMeal(t)
       \/ resetTodayLog(t)

SpecTwoTabs == Init /\ [][NextTwoTabs]_vars

NextTwoTabsPart002 ==
  \/ Tick
  \/ \E t \in Tabs :
       \/ Mount(t)
       \/ addComposerToLog_part002(t)
       \/ addMeal_part002(t)
       \/ resetLog_part002(t)

SpecTwoTabsPart002 == Init /\ [][NextTwoTabsPart002]_vars

(***************************************************************************)
(* The chat and the saved conversations of src/app/page.tsx.  A message is *)
(* its text; the durations stay empty and are left out.  A conversation is *)
(* [id, title, createdAt, messages], its id and createdAt the millisecond  *)
(* at which it was saved: window.prompt blocks the page until the user     *)
(* answers, so the clock has moved on when Date.now() is read.             *)
(***************************************************************************)
ChatTexts == {"hello"}
Titles == {<<>>, <<"">>, <<"lunch">>}

T_saved == "Conversation saved"
T_loaded(title) == "Loaded " \o title
T_removed == "Removed conversation"
T_cleared == "Chat cleared"

\* list.slice(0, n)
slice0(list, n) == SubSeq(list, 1, IF Len(list) < n THEN Len(list) ELSE n)

\* useChat appends the message sent; the persist effect stores the chat
sendMessage(t) ==
  /\ Len(messages[t]) < MaxMessages
  /\ \E m \in ChatTexts :
       /\ messages' = [messages EXCEPT ![t] = Append(@, m)]
       /\ lsChat' = JSONstringify([messages |-> Append(messages[t], m)])
  /\ UNCHANGED <<now, lsLog, lsGoals, lsProfile, todayLog, goals, profile, toast, rec,
                 prompt, savedConversations, lsConvs, clockMs, answer>>

\* saveCurrentConversation putting the new conversation last
saveCurrentConversation_append(t) ==
  /\ clockMs < MaxMs
  /\ \E title \in Titles :
       /\ answer' = title
       /\ clockMs' = clockMs + 1
       /\ IF title = <<>> \/ title[1] = ""
            THEN UNCHANGED <<savedConversations, lsConvs, toast>>
            ELSE LET conv == [id |-> clockMs + 1, title |-> title[1],
                              createdAt |-> clockMs + 1, messages |-> messages[t]]
                     next == slice0(savedConversations[t] \o <<conv>>, 50)
                 IN /\ savedConversations' = [savedConversations EXCEPT ![t] = next]
                    /\ lsConvs' = JSONstringify(next)
                    /\ toast' = [toast EXCEPT ![t] = T_saved]
  /\ UNCHANGED <<now, lsLog, lsGoals, lsProfile, todayLog, goals, profile, rec,
                 prompt, messages, lsChat>>

saveCurrentConversation(t) ==
  /\ clockMs < MaxMs
  /\ \E title \in Titles :
       /\ answer' = title
       /\ clockMs' = clockMs + 1
       /\ IF title = <<>> \/ title[1] = ""
            THEN UNCHANGED <<savedConversations, lsConvs, toast>>
            ELSE LET conv == [id |-> clockMs + 1, title |-> title[1],
                              createdAt |-> clockMs + 1, messages |-> messages[t]]
                     next == slice0(<<conv>> \o savedConversations[t], 50)
                 IN /\ savedConversations' = [savedConversations EXCEPT ![t] = next]
                    /\ lsConvs' = JSONstringify(next)
                    /\ toast' = [toast EXCEPT ![t] = T_saved]
  /\ UNCHANGED <<now, lsLog, lsGoals, lsProfile, todayLog, goals, profile, rec,
                 prompt, messages, lsChat>>

\* the entries whose Open or Delete button the user presses: the two newest
Pressed(list) == {i \in {1, 2} : i <= Len(list)}

loadConversation(t) ==
  /\ \E i \in Pressed(savedConversations[t]) :
       LET conv == savedConversations[t][i]
       IN /\ messages' = [messages EXCEPT ![t] = conv.messages]
          /\ lsChat' = JSONstringify([messages |-> conv.messages])
          /\ toast' = [toast EXCEPT ![t] = T_loaded(conv.title)]
  /\ UNCHANGED <<now, lsLog, lsGoals, lsProfile, todayLog, goals, profile, rec,
                 prompt, savedConversations, lsConvs, clockMs, answer>>

deleteConversation(t) ==
  /\ \E i \in Pressed(savedConversations[t]) :
       LET convId == savedConversations[t][i].id
           keep(c) == c.id # convId
           next == SelectSeq(savedConversations[t], keep)
       IN /\ savedConversations' = [savedConversations EXCEPT ![t] = next]
          /\ lsConvs' = JSONstringify(next)
  /\ toast' = [toast EXCEPT ![t] = T_removed]
  /\ UNCHANGED <<now, lsLog, lsGoals, lsProfile, todayLog, goals, profile, rec,
                 prompt, messages, lsChat, clockMs, answer>>

\* clearChat that also empties the log in memory
clearChat_resetsLog(t) ==
  /\ messages' = [messages EXCEPT ![t] = <<>>]
  /\ lsChat' = JSONstringify([messages |-> <<>>])
  /\ toast' = [toast EXCEPT ![t] = T_cleared]
  /\ todayLog' = [todayLog EXCEPT ![t] = ZeroLog(todayIso(now))]
  /\ UNCHANGED <<now, lsLog, lsGoals, lsProfile, goals, profile, rec,
                 prompt, savedConversations, lsConvs, clockMs, answer>>

clearChat(t) ==
  /\ messages' = [messages EXCEPT ![t] = <<>>]
  /\ lsChat' = JSONstringify([messages |-> <<>>])
  /\ toast' = [toast EXCEPT ![t] = T_cleared]
  /\ UNCHANGED <<now, lsLog, lsGoals, lsProfile, todayLog, goals, profile, rec,
                 prompt, savedConversations, lsConvs, clockMs, answer>>

\* the page with its chat: the log, goal and profile handlers next to the
\* chat and conversation handlers
NextChat ==
  \/ Tick
  \/ \E t \in OneTab :
       \/ Mount(t)
       \/ addMeal(t)
       \/ resetTodayLog(t)
       \/ updateProfileField(t)
       \/ editGoal(t)
       \/ sendMessage(t)
       \/ clearChat(t)
       \/ saveCurrentConversation(t)
       \/ loadConversation(t)
       \/ deleteConversation(t)

SpecChat == Init /\ [][NextChat]_vars

\* the conversations saved before the page is loaded: none, or a list of
\* StoredCounts entries saved at earlier milliseconds, newest first
StoredCounts == {0, 50}
StoredList(k) == [i \in 1..k |-> [id |-> 0 - i, title |-> "old", createdAt |-> 0 - i,
                                  messages |-> <<>>]]

InitConversations ==
  /\ now = 0
  /\ lsLog = Missing
  /\ lsGoals = Missing
  /\ lsProfile = Missing
  /\ todayLog = [t \in Tabs |-> ZeroLog(todayIso(0))]
  /\ goals = [t \in Tabs |-> estimateGoalsFromProfile(BlankProfile)]
  /\ profile = [t \in Tabs |-> BlankProfile]
  /\ toast = [t \in Tabs |-> ""]
  /\ rec = <<>>
  /\ prompt = <<>>
  /\ messages = [t \in Tabs |-> <<>>]
  /\ lsChat = JSONstringify([messages |-> <<>>])
  /\ lsConvs \in {Missing, Unparsable} \cup {JSONstringify(StoredList(k)) : k \in StoredCounts}
  /\ savedConversations = [t \in Tabs |-> storedConversations(lsConvs)]
  /\ clockMs = 0
  /\ answer = <<>>

NextConversations ==
  \E t \in OneTab :
    \/ Mount(t)
    \/ saveCurrentConversation(t)
    \/ deleteConversation(t)

SpecConversations == InitConversations /\ [][NextConversations]_vars

(***************************************************************************)
(* estimateGoalsFromProfile on its own: the profile form holds any of      *)
(* WideProfiles and the user presses Estimate goals.                       *)
(***************************************************************************)
NumberInputs ==
  {<<>>, <<"0">>, <<"x">>, <<"-", "5", "0">>, <<"3", "0">>, <<"7", "0">>,
   <<"3", "0", "0">>, <<"4", "0", "0">>}

ActivityInputs ==
  {<<>>, <<"S", "e", "d", "e", "n", "t", "a", "r", "y">>, <<"l", "i", "g", "h", "t">>,
   S_Moderate, <<"A", "C", "T", "I", "V", "E">>, <<"c", "o", "u", "c", "h">>}

WideProfiles ==
  {[name |-> <<>>, age |-> a, heightCm |-> h, weightKg |-> w, activity |-> act] :
     a \in NumberInputs, h \in {<<>>, <<"1", "7", "0">>, <<"-", "5", "0">>},
     w \in NumberInputs, act \in ActivityInputs}

InitEstimate ==
  \E p \in WideProfiles :
    /\ now = 0
    /\ lsLog = Missing
    /\ lsGoals = Missing
    /\ lsProfile = JSONstringify(p)
    /\ todayLog = [t \in Tabs |-> ZeroLog(todayIso(0))]
    /\ goals = [t \in Tabs |-> estimateGoalsFromProfile(BlankProfile)]
    /\ profile = [t \in Tabs |-> IF t \in OneTab THEN p ELSE BlankProfile]
    /\ toast = [t \in Tabs |-> ""]
    /\ rec = <<>>
    /\ prompt = <<>>
    /\ InitChat

NextEstimate == \E t \in OneTab : estimateGoals(t)

SpecEstimate == InitEstimate /\ [][NextEstimate]_vars

(***************************************************************************)
(* The extraction on its own: the goals are any of WideGoals, as the user  *)
(* can store them through the goal inputs, and the texts are WideTexts.    *)
(***************************************************************************)
WideGoals ==
  {[kcal |-> k, proteinG |-> p, carbsG |-> c, fatG |-> f] :
     k \in {0, 2000, 1800, -2000}, p \in {0, 150, 600, -10}, c \in {0, 200, 224},
     f \in {0, 56, -5}}

InitExtract ==
  \E g \in WideGoals :
    /\ now = 0
    /\ lsLog = Missing
    /\ lsGoals = saveGoals(g)
    /\ lsProfile = Missing
    /\ todayLog = [t \in Tabs |-> ZeroLog(todayIso(0))]
    /\ goals = [t \in Tabs |-> IF t \in OneTab THEN g ELSE estimateGoalsFromProfile(BlankProfile)]
    /\ profile = [t \in Tabs |-> BlankProfile]
    /\ toast = [t \in Tabs |-> ""]
    /\ rec = <<>>
    /\ prompt = <<>>
    /\ InitChat

NextExtract ==
  \/ \E t \in OneTab : \E text \in WideTexts : parseAndAddFromText(t, text)
  \/ \E t \in OneTab : resetTodayLog(t)

SpecExtract == InitExtract /\ [][NextExtract]_vars

(***************************************************************************)
(* src/prompts.ts: the profile of the page is handed to buildMessages,     *)
(* which lists the onboarding questions of the missing fields.  A value    *)
(* of a normalized numeric field is undefined, a number or a string.       *)
(***************************************************************************)
Undefined == [t |-> "undefined", n |-> 0, s |-> <<>>]
NumberVal(n) == [t |-> "number", n |-> n, s |-> <<>>]
StringVal(s) == [t |-> "string", n |-> 0, s |-> s]

\* Number.isFinite(n) ? n : (raw ? String(raw) : undefined), raw a string
normalizeNumeric(raw) ==
  LET n == Number(raw) IN
  IF ~n.nan THEN NumberVal(n.v)
  ELSE IF raw # <<>> THEN StringVal(raw)
  ELSE Undefined

S_veryactive == <<"v", "e", "r", "y", "a", "c", "t", "i", "v", "e">>
S_very_active == <<"v", "e", "r", "y", " ", "a", "c", "t", "i", "v", "e">>

\* normalizeProfile: <<>> is null.  raw has the keys of the page (name, age,
\* heightCm, weightKg, activity, all strings) and dietaryPreferences, <<>>
\* when undefined and <<array>> otherwise
normalizeProfile(raw) ==
  IF raw = <<>> THEN <<>>
  ELSE
    LET r == raw[1]
        act == toLowerCase(r.activity)
    IN <<[name |-> IF r.name = <<>> THEN <<>> ELSE <<r.name>>,
          age |-> normalizeNumeric(r.age),
          height_cm |-> normalizeNumeric(r.heightCm),
          weight_kg |-> normalizeNumeric(r.weightKg),
          activity_level |-> IF act = S_veryactive THEN S_very_active ELSE act,
          dietary_preferences |-> r.dietaryPreferences]>>

Q_name == "What's your name?"
Q_age == "How old are you?"
Q_weight == "What's your weight in kilograms (kg)?"
Q_activity == "How active are you on a typical week? (choose one: sedentary, light, moderate, active, very active)"
Q_diet == "Do you have any dietary preferences (e.g., vegetarian, non-vegetarian, vegan, gluten-free, jain)?"

\* profile.f === undefined || profile.f === null || profile.f === ''
UndefinedOrEmpty(v) == v.t = "undefined" \/ (v.t = "string" /\ v.s = <<>>)

onboardingQuestionsForMissing(normalized) ==
  IF normalized = <<>> THEN <<Q_name, Q_age, Q_weight, Q_activity, Q_diet>>
  ELSE
    LET p == normalized[1] IN
    (IF p.name = <<>> \/ p.name[1] = <<>> THEN <<Q_name>> ELSE <<>>)
    \o (IF UndefinedOrEmpty(p.age) THEN <<Q_age>> ELSE <<>>)
    \o (IF UndefinedOrEmpty(p.weight_kg) THEN <<Q_weight>> ELSE <<>>)
    \o (IF p.activity_level = <<>> THEN <<Q_activity>> ELSE <<>>)
    \o (IF p.dietary_preferences = <<>> \/ Len(p.dietary_preferences[1]) = 0
        THEN <<Q_diet>> ELSE <<>>)

\* what the caller passes as dietaryPreferences next to the page's keys
DietaryInputs == {<<>>, <<<<>>>>, <<<<"vegan">>>>}

\* buildMessages(opts): opts.userProfile is the profile of the page, or is
\* left out
buildMessages(t) ==
  \E given \in BOOLEAN : \E dp \in DietaryInputs :
    LET rawProfile ==
          IF given
          THEN <<[name |-> profile[t].name, age |-> profile[t].age,
                  heightCm |-> profile[t].heightCm, weightKg |-> profile[t].weightKg,
                  activity |-> profile[t].activity, dietaryPreferences |-> dp]>>
          ELSE <<>>
        normalizedProfile == normalizeProfile(rawProfile)
        missingFieldsQuestions == onboardingQuestionsForMissing(normalizedProfile)
    IN /\ prompt' = <<[userProfile |-> rawProfile,
                       missingFieldsQuestions |-> missingFieldsQuestions,
                       asksOnboarding |-> Len(missingFieldsQuestions) > 0]>>
       /\ UNCHANGED <<chatVars, now, lsLog, lsGoals, lsProfile, todayLog, goals, profile, toast, rec>>

\* the profiles the form can hold when a message is sent
PromptProfiles ==
  {[name |-> n, age |-> a, heightCm |-> h, weightKg |-> w, activity |-> act] :
     n \in {<<>>, <<"A", "l">>}, a \in {<<>>, <<"3", "0">>, <<"x">>},
     h \in {<<>>, <<"1", "7", "0">>}, w \in {<<>>, <<"7", "0">>},
     act \in {<<>>, S_Moderate, <<"c", "o", "u", "c", "h">>,
              <<"V", "e", "r", "y", "A", "c", "t", "i", "v", "e">>}}

InitPrompt ==
  \E p \in PromptProfiles :
    /\ now = 0
    /\ lsLog = Missing
    /\ lsGoals = Missing
    /\ lsProfile = JSONstringify(p)
    /\ todayLog = [t \in Tabs |-> ZeroLog(todayIso(0))]
    /\ goals = [t \in Tabs |-> estimateGoalsFromProfile(BlankProfile)]
    /\ profile = [t \in Tabs |-> IF t \in OneTab THEN p ELSE BlankProfile]
    /\ toast = [t \in Tabs |-> ""]
    /\ rec = <<>>
    /\ prompt = <<>>
    /\ InitChat

NextPrompt == \E t \in OneTab : buildMessages(t)

SpecPrompt == InitPrompt /\ [][NextPrompt]_vars

(***************************************************************************)
(* Properties.                                                             *)
(***************************************************************************)
\* a step of tab t in which addToTodayLog ran, in either page
AddStep(t) ==
  /\ \/ onAddToLog(t)
     \/ addComposerToLog(t)
     \/ addLastAssistantMessageToLog(t)
     \/ addMeal(t)
     \/ addComposerToLog_part002(t)
     \/ addLastAssistantMessageToLog_part002(t)
     \/ addMeal_part002(t)
  /\ toast'[t] = T_added

\* the log a tab holds, in memory or in localStorage, is dated another day
HeldStale(t) ==
  \/ todayLog[t].dateIso # todayIso(now)
  \/ lsLog.kind = "json" /\ lsLog.val[1].dateIso # todayIso(now)

\* the stored log is a log of the day of clock c
StoredFor(c) == lsLog.kind = "json" /\ lsLog.val[1].dateIso = todayIso(c)

RecordAlone(r, d) ==
  [dateIso |-> d, kcal |-> r.kcal, protein |-> r.protein, carbs |-> r.carbs,
   fat |-> r.fat]

\* C1: an add on a log dated an earlier day restarts from zero: the log in
\* memory and the stored log are the added record alone, stamped today.
\* Holds of src/app/page.tsx (Spec), fails of src/unnamed/part_002.
C1_StaleAddRestarts ==
  [][\A t \in OneTab :
       (AddStep(t) /\ HeldStale(t)) =>
         /\ todayLog'[t] = RecordAlone(rec'[1], todayIso(now'))
         /\ lsLog' = saveTodayLog(todayLog'[t])]_vars

\* C2: an add on the day of the stored log, with no midnight during the call,
\* adds the record's four fields to the stored ones (so the fields are the sums
\* of the records added since the log was zero), in memory and in localStorage.
C2_SameDayAddAccumulates ==
  [][\A t \in OneTab :
       (AddStep(t) /\ StoredFor(now) /\ todayIso(now') = todayIso(now)) =>
         /\ lsLog'.kind = "json"
         /\ lsLog'.val[1].dateIso = todayIso(now)
         /\ lsLog'.val[1].kcal = lsLog.val[1].kcal + rec'[1].kcal
         /\ lsLog'.val[1].protein = lsLog.val[1].protein + rec'[1].protein
         /\ lsLog'.val[1].carbs = lsLog.val[1].carbs + rec'[1].carbs
         /\ lsLog'.val[1].fat = lsLog.val[1].fat + rec'[1].fat
         /\ todayLog'[t] = lsLog'.val[1]]_vars

\* kcal 100 then kcal 50 on one day: the log holds kcal 150
C2_Witness ==
  /\ StoredFor(now)
  /\ lsLog.val[1].kcal = 150
  /\ rec # <<>> /\ rec[1].kcal = 50
  /\ toast["A"] = T_added
  /\ todayLog["A"] = lsLog.val[1]

\* C3: a text with no kcal and no gram pattern adds nothing: the log in memory
\* and the stored log are left as they are and no successful add is reported.
C3_NoPatternNothingLogged ==
  [][\A t \in OneTab :
       parseAndAddFromText(t, T_hello) =>
         /\ lsLog' = lsLog
         /\ todayLog' = todayLog
         /\ toast'[t] # T_added]_vars

\* C4: "30g protein" gives the record kcal 120, protein 30, carbs 0, fat 0.
C4_SingleMacroRecord ==
  [][\A t \in OneTab :
       (parseAndAddFromText(t, T_30gProtein) /\ toast'[t] = T_added) =>
         rec' = <<[kcal |-> 120, protein |-> 30, carbs |-> 0, fat |-> 0]>>]_vars

\* C5: the record handed to the log has no negative field, whatever goals the
\* user has stored.
C5_RecordNonNegative ==
  rec # <<>> =>
    rec[1].kcal >= 0 /\ rec[1].protein >= 0 /\ rec[1].carbs >= 0 /\ rec[1].fat >= 0

\* C6: the stored log has no negative field.
C6_LogNonNegative ==
  lsLog.kind = "json" =>
    /\ lsLog.val[1].kcal >= 0
    /\ lsLog.val[1].protein >= 0
    /\ lsLog.val[1].carbs >= 0
    /\ lsLog.val[1].fat >= 0

\* C7: a page load reads the stored log as it is when it is dated today, and as
\* a zeroed log stamped today when it is missing, unparsable or dated another day.
C7_ReadZeroesOtherDays ==
  [][\A t \in OneTab :
       Mount(t) =>
         IF StoredFor(now) THEN todayLog'[t] = lsLog.val[1]
         ELSE todayLog'[t] = ZeroLog(todayIso(now'))]_vars

\* a page loaded over a stored log of an earlier day that holds totals
C7_Witness ==
  /\ lsLog.kind = "json"
  /\ lsLog.val[1].dateIso < todayIso(now)
  /\ lsLog.val[1].kcal > 0
  /\ toast["A"] = ""
  /\ todayLog["A"] = ZeroLog(todayIso(now))

\* C8: the reset leaves, in memory and in localStorage, the zeroed log stamped
\* today, whatever the log was.
C8_ResetZeroesToday ==
  [][\A t \in OneTab :
       resetTodayLog(t) =>
         /\ todayLog'[t] = ZeroLog(todayIso(now'))
         /\ lsLog' = JSONstringify(ZeroLog(todayIso(now')))]_vars

\* a reset on the second day, after something was added
C8_Witness ==
  /\ toast["A"] = "Today's log reset"
  /\ rec # <<>> /\ rec[1].kcal > 0
  /\ now > 0
  /\ todayLog["A"] = ZeroLog(todayIso(now))
  /\ lsLog = JSONstringify(ZeroLog(todayIso(now)))

\* C9: once goals are stored, a step that is neither a goal edit nor Estimate
\* goals leaves the stored goals and the goals in memory as they are.
C9_OverrideKept ==
  [][\A t \in OneTab :
       (lsGoals.kind = "json" /\ ~editGoal(t) /\ ~estimateGoals(t)) =>
         /\ lsGoals' = lsGoals
         /\ goals'[t] = goals[t]]_vars

\* goals edited to protein 600, a record inferred with them, the profile
\* changed, and then the page loaded again: the edited goals are still there
C9_Witness ==
  /\ lsGoals.kind = "json"
  /\ goals["A"].proteinG = 600
  /\ goals["A"] = lsGoals.val[1]
  /\ goals["A"] # estimateGoalsFromProfile(profile["A"])
  /\ profile["A"].weightKg # <<>>
  /\ rec # <<>> /\ rec[1] = inferRecord(ParsedTexts[T_100kcal][1], goals["A"])
  /\ toast["A"] = ""

\* C10: estimated goals have kcal > 0 and no negative field.
C10_EstimatePositive ==
  \A t \in OneTab :
    toast[t] = "Goals estimated from profile" =>
      /\ goals[t].kcal > 0
      /\ goals[t].proteinG >= 0
      /\ goals[t].carbsG >= 0
      /\ goals[t].fatG >= 0

\* C11: the protein and fat calories of estimated goals fit in their kcal:
\* proteinG*4 + fatG*9 <= kcal, whatever the profile.
C11_ProteinFatWithinKcal ==
  \A t \in OneTab :
    toast[t] = "Goals estimated from profile" =>
      goals[t].proteinG * 4 + goals[t].fatG * 9 <= goals[t].kcal

\* the timezones of the browser, as offsets from UTC in half days
TzOffsets == {-1, 0, 1}

\* the calendar date at clock c in the timezone of offset off
LocalDate(c, off) == (2 * c + off * TicksPerDay) \div (2 * TicksPerDay)

\* C12: the date key stamped on the log by an add or a reset is the calendar
\* date of that instant in the user's timezone, whatever the timezone.
C12_DateKeyIsLocalDate ==
  [][\A t \in OneTab :
       (AddStep(t) \/ resetTodayLog(t)) =>
         \A off \in TzOffsets : todayLog'[t].dateIso = LocalDate(now', off)]_vars

\* a profile input that is empty or not a number
Absent(s) == s = <<>> \/ Number(s).nan

OrDefault(s, d) == IF Absent(s) THEN d ELSE Number(s).v

\* no profile input is the number 0
NoZeroInput(p) ==
  /\ Absent(p.weightKg) \/ Number(p.weightKg).v # 0
  /\ Absent(p.heightCm) \/ Number(p.heightCm).v # 0
  /\ Absent(p.age) \/ Number(p.age).v # 0

Recognised(activity) ==
  toLowerCase(activity) \in
    {<<"s", "e", "d", "e", "n", "t", "a", "r", "y">>, <<"l", "i", "g", "h", "t">>,
     <<"m", "o", "d", "e", "r", "a", "t", "e">>, <<"a", "c", "t", "i", "v", "e">>}

\* C13: Estimate goals always yields four numbers, and its kcal is the rounded
\* BMR 10*weight + 6.25*height - 5*age + 5 times the activity multiplier, with
\* weight 70, height 170, age 30 for an input that is empty or not a number and
\* the multiplier 1.55 for an activity that is empty or not one of the four.
C13_DefaultsFillProfile ==
  \A t \in OneTab :
    toast[t] = "Goals estimated from profile" =>
      LET p == profile[t]
          bmr == RoundDiv(40 * OrDefault(p.weightKg, 70) + 25 * OrDefault(p.heightCm, 170)
                          - 20 * OrDefault(p.age, 30) + 20, 4)
          mult == IF Recognised(p.activity) THEN activityMultiplier(p.activity) ELSE 1550
      IN /\ goals[t].kcal \in Int /\ goals[t].proteinG \in Int
         /\ goals[t].carbsG \in Int /\ goals[t].fatG \in Int
         /\ NoZeroInput(p) => goals[t].kcal = RoundDiv(bmr * mult, 1000)

\* goals estimated from a profile with no weight, no height, an age that is not
\* a number and an unknown activity: the kcal of 70 kg, 170 cm, 30 years, 1.55
C13_Witness ==
  /\ toast["A"] = "Goals estimated from profile"
  /\ profile["A"].weightKg = <<>>
  /\ profile["A"].heightCm = <<>>
  /\ profile["A"].age = <<"x">>
  /\ profile["A"].activity = <<"c", "o", "u", "c", "h">>
  /\ goals["A"] = [kcal |-> 2508, proteinG |-> 157, carbsG |-> 313, fatG |-> 70]

G_example == [kcal |-> 2000, proteinG |-> 150, carbsG |-> 200, fatG |-> 56]

Within1(x, y) == x - y <= 1 /\ y - x <= 1

\* C14: with the goals {kcal 2000, protein 150, carbs 200, fat 56}, the text
\* "420 kcal" adds a record of kcal 420 with protein within 1 g of 32, fat
\* within 1 g of 12 and carbs within 1 g of 47.
C14_Example420 ==
  [][\A t \in OneTab :
       (goals[t] = G_example /\ parseAndAddFromText(t, T_420kcal)) =>
         /\ rec' # <<>>
         /\ rec'[1].kcal = 420
         /\ Within1(rec'[1].protein, 32)
         /\ Within1(rec'[1].fat, 12)
         /\ Within1(rec'[1].carbs, 47)
         /\ lsLog'.kind = "json"
         /\ lsLog'.val[1].kcal >= 420]_vars

\* "420 kcal" was added under the example goals
C14_Witness ==
  /\ goals["A"] = G_example
  /\ toast["A"] = T_added
  /\ rec = <<[kcal |-> 420, protein |-> 32, carbs |-> 47, fat |-> 12]>>
  /\ lsLog.kind = "json" /\ lsLog.val[1].kcal = 420

\* C16: for a profile handed over from the page, buildMessages lists the
\* question of a required field exactly when the field is missing (an empty
\* string, or no dietary preference), so the list is empty exactly when the
\* five fields are present.
C16_QuestionsForMissingOnly ==
  (prompt # <<>> /\ prompt[1].userProfile # <<>>) =>
    LET raw == prompt[1].userProfile[1]
        qs == prompt[1].missingFieldsQuestions
        Asked(q) == \E i \in 1..Len(qs) : qs[i] = q
        noDiet == raw.dietaryPreferences = <<>> \/ raw.dietaryPreferences[1] = <<>>
    IN /\ Asked(Q_name) <=> raw.name = <<>>
       /\ Asked(Q_age) <=> raw.age = <<>>
       /\ Asked(Q_weight) <=> raw.weightKg = <<>>
       /\ Asked(Q_activity) <=> raw.activity = <<>>
       /\ Asked(Q_diet) <=> noDiet
       /\ (qs = <<>>) <=> (raw.name # <<>> /\ raw.age # <<>> /\ raw.weightKg # <<>>
                           /\ raw.activity # <<>> /\ ~noDiet)

\* the text states a kcal value and no gram value
KcalOnly(text) ==
  /\ ParsedTexts[text] # <<>>
  /\ ParsedTexts[text][1].kcal # <<>>
  /\ ParsedTexts[text][1].protein = <<>>
  /\ ParsedTexts[text][1].carbs = <<>>
  /\ ParsedTexts[text][1].fat = <<>>

\* C17, as claimed: for a text with only kcal, each macro of the record is the
\* kcal times the goal's own share of that macro (proteinG*4, carbsG*4, fatG*9
\* over goals.kcal), converted to grams, for every goals with goals.kcal # 0.
C17_SharesOfOwnMacro ==
  [][\A t \in OneTab : \A text \in WideTexts :
       (KcalOnly(text) /\ goals[t].kcal # 0 /\ parseAndAddFromText(t, text)) =>
         LET kcal == ParsedTexts[text][1].kcal[1] IN
         /\ rec'[1].protein = RoundDiv(kcal * goals[t].proteinG * 4, goals[t].kcal * 4)
         /\ rec'[1].carbs = RoundDiv(kcal * goals[t].carbsG * 4, goals[t].kcal * 4)
         /\ rec'[1].fat = RoundDiv(kcal * goals[t].fatG * 9, goals[t].kcal * 9)]_vars

\* C17, amended: protein and fat are the kcal times the goal's share of that
\* macro (proteinG*4 and fatG*9 over T), carbs the kcal times what protein and
\* fat leave of the goal (T - proteinG*4 - fatG*9 over T), each converted to
\* grams and rounded, where T is goals.kcal, or 2000 when goals.kcal is 0;
\* goals.carbsG plays no part.
C17_CarbsFromRemainder ==
  [][\A t \in OneTab : \A text \in WideTexts :
       (KcalOnly(text) /\ parseAndAddFromText(t, text)) =>
         LET kcal == ParsedTexts[text][1].kcal[1]
             T == IF goals[t].kcal = 0 THEN 2000 ELSE goals[t].kcal
             rest == T - goals[t].proteinG * 4 - goals[t].fatG * 9
         IN /\ rec'[1].kcal = kcal
            /\ rec'[1].protein = RoundDiv(kcal * goals[t].proteinG * 4, T * 4)
            /\ rec'[1].carbs = RoundDiv(kcal * rest, T * 4)
            /\ rec'[1].fat = RoundDiv(kcal * goals[t].fatG * 9, T * 9)]_vars

\* "250<tab>kcal" added under goals whose macro calories (600 + 800 + 504) are
\* not their kcal (1800): carbs 24 is the remainder's share, not carbsG's (28)
C17_Witness ==
  /\ goals["A"] = [kcal |-> 1800, proteinG |-> 150, carbsG |-> 200, fatG |-> 56]
  /\ toast["A"] = T_added
  /\ rec = <<[kcal |-> 250, protein |-> 21, carbs |-> 24, fat |-> 8]>>

\* C18: an add reads the date once: when the date it stamps on the log is not
\* the date of the stored log it started from, the stored log counted as stale
\* and the new log is the added record alone, never the old totals under the
\* new date.
C18_OneDatePerAdd ==
  [][\A t \in OneTab :
       (AddStep(t) /\ lsLog.kind = "json"
          /\ lsLog'.val[1].dateIso # lsLog.val[1].dateIso) =>
         lsLog'.val[1] = RecordAlone(rec'[1], lsLog'.val[1].dateIso)]_vars

\* C19: "420 kcal, 30g protein" states kcal and protein only; the remaining
\* max(0, 420 - 30*4) = 300 kcal go to carbs and fat in proportion to the goal
\* calories of carbs and of fat, renormalized over these two.
C19_RemainderOverMissing ==
  [][\A t \in OneTab :
       (parseAndAddFromText(t, T_420kcal30gProtein) /\ goals[t].kcal > 0
          /\ goals[t].proteinG > 0 /\ goals[t].carbsG > 0 /\ goals[t].fatG > 0) =>
         LET goalCarbCals == goals[t].carbsG * 4
             goalFatCals == goals[t].fatG * 9
         IN /\ rec'[1].kcal = 420
            /\ rec'[1].protein = 30
            /\ rec'[1].carbs = RoundDiv(300 * goalCarbCals, (goalCarbCals + goalFatCals) * 4)
            /\ rec'[1].fat = RoundDiv(300 * goalFatCals, (goalCarbCals + goalFatCals) * 9)]_vars

\* C20: when the text states a kcal value and the macro calories of the goals
\* sum to goals.kcal (a positive goal), the macro calories of the record do not
\* exceed its kcal.
C20_MacrosWithinKcal ==
  [][\A t \in OneTab : \A text \in WideTexts :
       (/\ ParsedTexts[text] # <<>>
        /\ ParsedTexts[text][1].kcal # <<>>
        /\ goals[t].kcal > 0
        /\ goals[t].proteinG * 4 + goals[t].carbsG * 4 + goals[t].fatG * 9 = goals[t].kcal
        /\ parseAndAddFromText(t, text)) =>
         rec'[1].protein * 4 + rec'[1].carbs * 4 + rec'[1].fat * 9 <= rec'[1].kcal]_vars

\* C21: a text that states macros and no kcal gives a record whose kcal is
\* the calories of the stated macros, the others counted as 0: "30g protein"
\* gives 30*4 and "40 G carbs" gives 40*4.
C21_KcalFromStatedMacros ==
  [][\A t \in OneTab :
       /\ parseAndAddFromText(t, T_30gProtein) => rec'[1].kcal = 30 * 4
       /\ parseAndAddFromText(t, T_40gCarbs) => rec'[1].kcal = 40 * 4]_vars

\* the kcal the spec's formula gives for profile p: the unrounded
\* 10*weight + 6.25*height - 5*age + 5 times the multiplier, rounded once
ReferenceKcal(p) ==
  RoundDiv((40 * OrDefault(p.weightKg, 70) + 25 * OrDefault(p.heightCm, 170)
            - 20 * OrDefault(p.age, 30) + 20)
           * (IF p.activity = <<>> THEN 1550 ELSE activityMultiplier(p.activity)),
           4000)

\* C22: the kcal of estimated goals is round(bmr * multiplier) with the
\* unrounded bmr, for every profile.
C22_KcalFromUnroundedBmr ==
  \A t \in OneTab :
    (toast[t] = "Goals estimated from profile" /\ NoZeroInput(profile[t])) =>
      goals[t].kcal = ReferenceKcal(profile[t])

\* C23: the carbs of estimated goals are round((kcal - proteinG*4 - fatG*9)/4)
\* when that remainder is positive and round(kcal*0.45/4) otherwise, and are
\* never negative.
C23_CarbsFromRemainder ==
  \A t \in OneTab :
    toast[t] = "Goals estimated from profile" =>
      LET g == goals[t]
          remainder == g.kcal - g.proteinG * 4 - g.fatG * 9
      IN /\ g.carbsG = IF remainder > 0 THEN RoundDiv(remainder, 4)
                       ELSE RoundDiv(g.kcal * 45, 400)
         /\ g.carbsG >= 0

\* C24: the protein of estimated goals is round(weight*1.6) when the weight
\* of the profile is a non-zero number and round(kcal*0.25/4) otherwise, and
\* the fat is round(kcal*0.25/9).
C24_ProteinAndFat ==
  \A t \in OneTab :
    toast[t] = "Goals estimated from profile" =>
      LET w == profile[t].weightKg
          g == goals[t]
      IN /\ g.proteinG = IF ~Absent(w) /\ Number(w).v # 0
                         THEN RoundDiv(Number(w).v * 16, 10)
                         ELSE RoundDiv(g.kcal * 25, 400)
         /\ g.fatG = RoundDiv(g.kcal * 25, 900)

\* goals estimated from a profile of 70 kg: protein 112, whatever the kcal
C24_Witness ==
  /\ toast["A"] = "Goals estimated from profile"
  /\ profile["A"].weightKg = <<"7", "0">>
  /\ profile["A"].activity = <<"l", "i", "g", "h", "t">>
  /\ goals["A"].proteinG = 112
  /\ goals["A"].fatG = RoundDiv(goals["A"].kcal * 25, 900)
  /\ goals["A"].kcal > 0

\* the multiplier of the table, in thousandths, for an activity in lower case
TableMultiplier(lower) ==
  IF lower = <<"s", "e", "d", "e", "n", "t", "a", "r", "y">> THEN 1200
  ELSE IF lower = <<"l", "i", "g", "h", "t">> THEN 1375
  ELSE IF lower = <<"a", "c", "t", "i", "v", "e">> THEN 1725
  ELSE 1550

\* C25: the kcal of estimated goals is the rounded BMR times 1.20 for
\* sedentary, 1.375 for light, 1.55 for moderate, 1.725 for active, whatever
\* the case of the letters, and times 1.55 for any other activity, the empty
\* one included.
C25_MultiplierTable ==
  \A t \in OneTab :
    (toast[t] = "Goals estimated from profile" /\ NoZeroInput(profile[t])) =>
      LET p == profile[t]
          bmr == RoundDiv(40 * OrDefault(p.weightKg, 70) + 25 * OrDefault(p.heightCm, 170)
                          - 20 * OrDefault(p.age, 30) + 20, 4)
      IN goals[t].kcal = RoundDiv(bmr * TableMultiplier(toLowerCase(p.activity)), 1000)

\* goals estimated for "ACTIVE" in capitals: 1618 * 1.725 = 2791
C25_Witness ==
  /\ toast["A"] = "Goals estimated from profile"
  /\ profile["A"].activity = <<"A", "C", "T", "I", "V", "E">>
  /\ profile["A"].weightKg = <<>>
  /\ profile["A"].heightCm = <<>>
  /\ profile["A"].age = <<>>
  /\ goals["A"].kcal = 2791

\* C26: an empty text ends in the error "No text provided" and leaves the log
\* in memory and the stored log as they are; with goals.kcal = 0 a text with
\* only kcal gives integer macros, the shares taken over 2000, whose calories
\* are the kcal up to rounding.
C26_EmptyTextAndZeroGoals ==
  [][\A t \in OneTab :
       /\ parseAndAddFromText(t, <<>>) =>
            /\ toast'[t] = "No text provided"
            /\ lsLog' = lsLog
            /\ todayLog' = todayLog
            /\ rec' = rec
       /\ \A text \in WideTexts :
            (KcalOnly(text) /\ goals[t].kcal = 0 /\ parseAndAddFromText(t, text)) =>
              LET kcal == ParsedTexts[text][1].kcal[1] IN
              /\ rec'[1].protein \in Int /\ rec'[1].carbs \in Int /\ rec'[1].fat \in Int
              /\ rec'[1].protein = RoundDiv(kcal * goals[t].proteinG * 4, 2000 * 4)
              /\ rec'[1].fat = RoundDiv(kcal * goals[t].fatG * 9, 2000 * 9)
              /\ rec'[1].protein * 4 + rec'[1].carbs * 4 + rec'[1].fat * 9 - kcal <= 9
              /\ kcal - rec'[1].protein * 4 - rec'[1].carbs * 4 - rec'[1].fat * 9 <= 9]_vars

\* under goals with kcal 0, "420 kcal" was added and then an empty text refused
C26_Witness ==
  /\ goals["A"] = [kcal |-> 0, proteinG |-> 150, carbsG |-> 200, fatG |-> 56]
  /\ rec = <<[kcal |-> 420, protein |-> 32, carbs |-> 47, fat |-> 12]>>
  /\ toast["A"] = "No text provided"
  /\ lsLog.kind = "json" /\ lsLog.val[1].kcal = 420
  /\ todayLog["A"] = lsLog.val[1]

\* the number of the first "<digits> g" of each text, <<>> when it has none
FirstGram(text) ==
  IF text \in {T_30gProtein, T_meal, T_420kcal30gProtein} THEN <<30>>
  ELSE IF text = T_40gCarbs THEN <<40>>
  ELSE IF text = T_00kcal THEN <<7>>
  ELSE IF text = T_12345g THEN <<2345>>
  ELSE IF text = T_0gFat300kcal THEN <<0>>
  ELSE <<>>

C28_NoLostUpdate ==
  [][\A t \in Tabs :
       (AddStep(t) /\ StoredFor(now) /\ todayIso(now') = todayIso(now)) =>
         /\ StoredFor(now)'
         /\ lsLog'.val[1].kcal = lsLog.val[1].kcal + rec'[1].kcal
         /\ lsLog'.val[1].protein = lsLog.val[1].protein + rec'[1].protein
         /\ lsLog'.val[1].carbs = lsLog.val[1].carbs + rec'[1].carbs
         /\ lsLog'.val[1].fat = lsLog.val[1].fat + rec'[1].fat]_vars

\* a step of tab t in which persistTodayLog ran: an add (in SpecChat the
\* adds are those of the meal buttons) or a reset
PersistStep(t) ==
  \/ addMeal(t) /\ toast'[t] = T_added
  \/ resetTodayLog(t)

\* a step of tab t that is a goal edit, a profile edit or a chat or
\* conversation action
OtherStep(t) ==
  \/ editGoal(t)
  \/ updateProfileField(t)
  \/ sendMessage(t)
  \/ clearChat(t)
  \/ saveCurrentConversation(t)
  \/ loadConversation(t)
  \/ deleteConversation(t)

\* C29 as stated: in a single tab, after every add or reset the log in memory
\* equals the stored log; only persistTodayLog writes either of the two, and
\* no goal edit, profile edit, chat clear or conversation save, load or delete
\* changes either.  Fails: the page load sets the log in memory without
\* persistTodayLog.
C29_OnlyPersistWrites ==
  [][\A t \in OneTab :
       /\ PersistStep(t) => lsLog' = saveTodayLog(todayLog'[t])
       /\ (lsLog' # lsLog \/ todayLog'[t] # todayLog[t]) => PersistStep(t)
       /\ OtherStep(t) => UNCHANGED <<lsLog, todayLog>>]_vars

\* C29: in a single tab, after every add or reset the log in memory equals
\* the stored log; only persistTodayLog writes the stored log, only
\* persistTodayLog and the page load set the log in memory, and no goal edit,
\* profile edit, chat clear or conversation save, load or delete changes
\* either.
C29_PersistAndLoadWrite ==
  [][\A t \in OneTab :
       /\ PersistStep(t) => lsLog' = saveTodayLog(todayLog'[t])
       /\ lsLog' # lsLog => PersistStep(t)
       /\ todayLog'[t] # todayLog[t] => (PersistStep(t) \/ Mount(t))
       /\ OtherStep(t) => UNCHANGED <<lsLog, todayLog>>]_vars

\* a meal was added, then the conversation was saved and the chat cleared:
\* the log in memory still is the stored log
C29_Witness ==
  /\ todayLog["A"].kcal > 0
  /\ lsLog = saveTodayLog(todayLog["A"])
  /\ savedConversations["A"] # <<>>
  /\ toast["A"] = T_cleared

\* the list a page load would read from SAVED_CONVS_KEY
PersistedList == storedConversations(lsConvs)

NewestFirst(list) ==
  \A i, j \in 1..Len(list) : i < j => list[i].createdAt > list[j].createdAt

\* a step in which the title prompt was answered with a title
SavedStep == clockMs' # clockMs /\ answer' # <<>> /\ answer'[1] # ""

\* a step in which the title prompt was cancelled or left empty
CancelledStep == clockMs' # clockMs /\ ~(answer' # <<>> /\ answer'[1] # "")

\* C30: in a single tab the list of saved conversations holds at most 50
\* entries, newest first, and the stored list is the list in memory; a save
\* puts the new conversation first and, when 50 are stored, drops the oldest;
\* a cancelled title prompt leaves the list in memory and the stored list as
\* they are.
C30_SavedListBounded ==
  /\ [](\A t \in OneTab :
          /\ Len(savedConversations[t]) <= 50
          /\ NewestFirst(savedConversations[t])
          /\ PersistedList = savedConversations[t])
  /\ [][\A t \in OneTab :
          LET list == savedConversations[t]
              next == savedConversations'[t]
          IN /\ SavedStep =>
                  /\ next[1].createdAt = clockMs'
                  /\ next[1].title = answer'[1]
                  /\ Tail(next) = IF Len(list) = 50 THEN SubSeq(list, 1, 49) ELSE list
             /\ CancelledStep => UNCHANGED <<savedConversations, lsConvs>>]_vars

\* 50 conversations were stored and one more was saved: the oldest is gone
C30_Witness ==
  /\ Len(savedConversations["A"]) = 50
  /\ savedConversations["A"][1].createdAt = clockMs
  /\ savedConversations["A"][1].title = "lunch"
  /\ savedConversations["A"][2].createdAt = 0 - 1
  /\ savedConversations["A"][50].createdAt = 0 - 49
  /\ lsConvs = JSONstringify(savedConversations["A"])

====
